---- MODULE Spec2Model ----
(***************************************************************************)
(* State-machine model of the RAG question-answering backend:              *)
(*   app/api/routes/documents.py   the upload / info / delete handlers     *)
(*   app/core/document_processor.py  extension dispatch, load and split    *)
(*   app/core/vector_store.py      cached client, collection bootstrap     *)
(*   app/core/embedding.py, app/config.py  the other cached handles        *)
(*   app/core/rag_chain.py, app/core/ragas_evaluator.py  query+evaluation  *)
(*   app/main.py                   root route and global exception handler *)
(* The hosted services (vector database, loaders, splitter, chat model,    *)
(* evaluation library) are the environment: each call into them draws its  *)
(* outcome from the outcomes that call can have.                           *)
(*                                                                         *)
(* The handlers and methods are modelled as their bodies are written, for  *)
(* a process whose modules are loaded.  The loading itself is modelled     *)
(* where add_documents is called on its own (SpecAdd): the default value   *)
(* `ids=ids` in the signature of VectorStoreService.add_documents,         *)
(* vector_store.py:79, is evaluated when the class body runs.              *)
(***************************************************************************)
EXTENDS Integers, Sequences, FiniteSets, TLC

\* ------------------------------------------------------------------ bounds
\* number of request slots served by the event loop
MaxReq == 2
\* largest number of chunks the splitter returns for one upload
MaxChunks == 2
\* largest magnitude of an explicit chunk_size / chunk_overlap argument
MaxArg == 3
\* how many timeout periods the clock of a running evaluation is followed for
MaxTicks == 2
\* largest number of documents one retrieval returns
MaxDocs == 2
\* how far beyond the snippet limit the longest page content goes
MaxOver == 4

\* ------------------------------------------------------- program constants
EMBEDDING_DIMENSION == 1536
CHUNK_SIZE == 1000
CHUNK_OVERLAP == 200
\* Settings.ragas_timeout_seconds (30.0), in seconds
ragas_timeout_seconds == 30

Reqs == 1..MaxReq

\* ------------------------------------------------------------ exceptions
\* An exception is its class and its text (str(e)).
Exc(cls, text) == [cls |-> cls, text |-> text]
NoExc == Exc("", "")
ExcTexts == {"disk full", "secret-host refused"}

\* isinstance(e, ValueError)
IsValueError(e) == e.cls = "ValueError"

\* ------------------------------------------------------- vector database
\* The hosted collection: whether it exists, its points, its vector config.
AbsentDb == [exists |-> FALSE, points |-> {}, size |-> 0, distance |-> ""]
StoredDbs ==
    { [exists |-> TRUE, points |-> p, size |-> EMBEDDING_DIMENSION, distance |-> "Cosine"]
        : p \in {{}, {"p1", "p2"}} }
InitDbs == {AbsentDb} \cup StoredDbs

\* How the server answers one call: normally, with a non-success HTTP status
\* (qdrant_client raises UnexpectedResponse), or not at all (the client
\* raises ResponseHandlingException).
Ok == [k |-> "ok", text |-> ""]
Answers ==
    {Ok, [k |-> "http", text |-> "500 Internal Server Error"]}
        \cup { [k |-> "conn", text |-> t] : t \in ExcTexts }

AnswerExc(a) ==
    IF a.k = "http" THEN Exc("UnexpectedResponse", a.text)
    ELSE Exc("ResponseHandlingException", a.text)

\* client.get_collection(name)
get_collection(d, a) ==
    IF a.k # "ok" THEN [exc |-> AnswerExc(a), points_count |-> 0, status |-> ""]
    ELSE IF ~d.exists
         THEN [exc |-> Exc("UnexpectedResponse", "404 Not Found"),
               points_count |-> 0, status |-> ""]
         ELSE [exc |-> NoExc, points_count |-> Cardinality(d.points), status |-> "green"]

\* client.create_collection(name, VectorParams(size, distance))
create_collection(d, a, size, distance) ==
    IF a.k # "ok" THEN [exc |-> AnswerExc(a), db |-> d]
    ELSE IF d.exists
         THEN [exc |-> Exc("UnexpectedResponse", "409 Conflict"), db |-> d]
         ELSE [exc |-> NoExc,
               db |-> [exists |-> TRUE, points |-> {}, size |-> size, distance |-> distance]]

\* client.delete_collection(name): deleting a missing collection is no error
client_delete_collection(d, a) ==
    IF a.k # "ok" THEN [exc |-> AnswerExc(a), db |-> d]
    ELSE [exc |-> NoExc, db |-> AbsentDb]

\* ------------------------------------------------ cached process handles
\* functools.lru_cache on a function without arguments: the first call runs
\* the body and stores what it returns, later calls return the stored value.
\* cache.x = 0 is an empty cache, otherwise the cached instance; built.x
\* counts the objects of that class constructed so far, and an instance is
\* named by its construction number.
Handles == {"settings", "embeddings", "qdrant"}

\* config.get_settings: return Settings()
get_settings(c, b) ==
    IF c.settings # 0 THEN [val |-> c.settings, cache |-> c, built |-> b]
    ELSE LET n == b.settings + 1
         IN  [val |-> n, cache |-> [c EXCEPT !.settings = n],
              built |-> [b EXCEPT !.settings = n]]

\* embedding.get_embeddings: settings = get_settings(); one OpenAIEmbeddings
get_embeddings(c, b) ==
    IF c.embeddings # 0 THEN [val |-> c.embeddings, cache |-> c, built |-> b]
    ELSE LET s == get_settings(c, b)
             n == s.built.embeddings + 1
         IN  [val |-> n, cache |-> [s.cache EXCEPT !.embeddings = n],
              built |-> [s.built EXCEPT !.embeddings = n]]

\* vector_store.get_qdrant_client: the body constructs a QdrantClient, binds
\* it to `client`, then constructs a second one and returns that; the two
\* statements after the return are never run.
get_qdrant_client(c, b) ==
    IF c.qdrant # 0 THEN [val |-> c.qdrant, cache |-> c, built |-> b]
    ELSE LET first == b.qdrant + 1
             second == first + 1
         IN  [val |-> second, cache |-> [c EXCEPT !.qdrant = second],
              built |-> [b EXCEPT !.qdrant = second]]

\* ------------------------------------------------- VectorStoreService
\* _ensure_collection: look the collection up; on UnexpectedResponse create
\* it; every other exception of the lookup, and every exception of the
\* creation, propagates.  al, ac: the server's answers to the two calls.
ensure_collection(d, al, ac) ==
    LET look == get_collection(d, al)
    IN  IF look.exc = NoExc
        THEN [exc |-> NoExc, db |-> d, lookup |-> "found", createCalled |-> FALSE]
        ELSE IF look.exc.cls = "UnexpectedResponse"
        THEN LET made == create_collection(d, ac, EMBEDDING_DIMENSION, "Cosine")
             IN  [exc |-> made.exc, db |-> made.db,
                  lookup |-> "UnexpectedResponse", createCalled |-> TRUE]
        ELSE [exc |-> look.exc, db |-> d, lookup |-> "error", createCalled |-> FALSE]

\* VectorStoreService.__init__: the two cached handles, _ensure_collection,
\* then QdrantVectorStore(client, collection_name, embedding), whose own
\* check of the collection (answer av) can raise.
VectorStoreService(d, c, b, al, ac, av) ==
    LET cl == get_qdrant_client(c, b)
        em == get_embeddings(cl.cache, cl.built)
        en == ensure_collection(d, al, ac)
        exc == IF en.exc # NoExc THEN en.exc
               ELSE IF av.k # "ok" THEN AnswerExc(av)
               ELSE NoExc
    IN  [exc |-> exc, db |-> en.db, cache |-> em.cache, built |-> em.built,
         lookup |-> en.lookup, createCalled |-> en.createCalled,
         client |-> cl.val, embeddings |-> em.val]

\* What one construction did, kept for the properties.
CtorLog(d, vs) ==
    [made |-> TRUE, before |-> d, after |-> vs.db, lookup |-> vs.lookup,
     createCalled |-> vs.createCalled, returned |-> vs.exc = NoExc]
NoCtor ==
    [made |-> FALSE, before |-> AbsentDb, after |-> AbsentDb, lookup |-> "",
     createCalled |-> FALSE, returned |-> FALSE]

\* VectorStoreService.get_collection_info
vs_get_collection_info(d, ag) ==
    LET info == get_collection(d, ag)
    IN  IF info.exc = NoExc
        THEN [exc |-> NoExc, points_count |-> info.points_count, status |-> info.status]
        ELSE IF info.exc.cls = "UnexpectedResponse"
        THEN [exc |-> NoExc, points_count |-> 0, status |-> "not_found"]
        ELSE [exc |-> info.exc, points_count |-> 0, status |-> ""]

\* ------------------------------------------------------- file names
\* A file name is a sequence of characters.
Upper == <<"P", "D", "F", "T", "X", "C", "S", "V">>
LowerOf == <<"p", "d", "f", "t", "x", "c", "s", "v">>

\* str.lower() on one character
LowerChar(ch) ==
    IF \E i \in 1..Len(Upper) : Upper[i] = ch
    THEN LowerOf[CHOOSE i \in 1..Len(Upper) : Upper[i] = ch]
    ELSE ch

\* str.lower()
Lower(w) == [i \in 1..Len(w) |-> LowerChar(w[i])]

\* str.rfind("."): the last position of a dot, 0 when there is none
\* (positions count from 1 here, from 0 in Python)
RFindDot(w) ==
    IF \E i \in 1..Len(w) : w[i] = "."
    THEN CHOOSE i \in 1..Len(w) : w[i] = "." /\ \A j \in (i+1)..Len(w) : w[j] # "."
    ELSE 0

\* pathlib.PurePath.suffix of a name without directories: the text from the
\* last dot on, empty when the dot is missing, leads the name or ends it
Suffix(w) ==
    LET i == RFindDot(w)
    IN  IF 1 < i /\ i < Len(w) THEN SubSeq(w, i, Len(w)) ELSE <<>>

\* DocumentProcessor.SUPPORTED_EXTENSIONS
SUPPORTED_EXTENSIONS ==
    { <<".", "p", "d", "f">>, <<".", "t", "x", "t">>, <<".", "c", "s", "v">> }

\* The uploads of the model: the name, and whether its extension, compared
\* without regard to case, is one of the three supported ones (told by hand).
Uploads ==
    { [name |-> <<>>,                          supported |-> FALSE],
      [name |-> <<"a", ".", "t", "x", "t">>,   supported |-> TRUE],
      [name |-> <<"a", ".", "P", "d", "F">>,   supported |-> TRUE],
      [name |-> <<"a", ".", "e", "x", "e">>,   supported |-> FALSE],
      [name |-> <<"c", "s", "v">>,             supported |-> FALSE],
      [name |-> <<".", "p", "d", "f">>,        supported |-> FALSE] }
FileNames == { u.name : u \in Uploads }
SupportedName(w) == \E u \in Uploads : u.name = w /\ u.supported

\* ------------------------------------------------- DocumentProcessor
\* An optional integer argument: None, or an integer.
None == [some |-> FALSE, v |-> 0]
Some(n) == [some |-> TRUE, v |-> n]
ArgVals == {None} \cup { Some(n) : n \in (0 - MaxArg)..MaxArg }

\* Python's `a or b` on an optional integer: None and 0 are falsy
PyOr(a, dflt) == IF a.some /\ a.v # 0 THEN a.v ELSE dflt

\* The splitter's own argument check.  Every release of the text splitter
\* refuses an overlap larger than the chunk size; the later releases
\* (strict) also refuse a chunk size <= 0 and an overlap < 0.
TextSplitterCheck(size, overlap, strict) ==
    IF strict /\ size <= 0 THEN Exc("ValueError", "chunk_size must be > 0")
    ELSE IF strict /\ overlap < 0 THEN Exc("ValueError", "chunk_overlap must be >= 0")
    ELSE IF overlap > size THEN Exc("ValueError", "larger chunk overlap than chunk size")
    ELSE NoExc

\* DocumentProcessor.__init__(chunk_size, chunk_overlap)
DocumentProcessor(cs, co, strict) ==
    LET size == PyOr(cs, CHUNK_SIZE)
        overlap == PyOr(co, CHUNK_OVERLAP)
    IN  [exc |-> TextSplitterCheck(size, overlap, strict),
         chunk_size |-> size, chunk_overlap |-> overlap,
         splitter |-> [chunk_size |-> size, chunk_overlap |-> overlap],
         args |-> <<cs, co>>]
NoProcessor ==
    [exc |-> NoExc, chunk_size |-> 0, chunk_overlap |-> 0,
     splitter |-> [chunk_size |-> 0, chunk_overlap |-> 0], args |-> <<None, None>>]

\* What the loader and the splitter make of the stored bytes: n chunks, or an
\* exception of the loader.
Loads ==
    { [k |-> "chunks", n |-> n, exc |-> NoExc] : n \in 0..MaxChunks }
        \cup { [k |-> "raise", n |-> 0, exc |-> Exc("RuntimeError", t)] : t \in ExcTexts }
        \cup { [k |-> "raise", n |-> 0, exc |-> Exc("ValueError", "could not convert")] }
NoLoad == [k |-> "", n |-> 0, exc |-> NoExc]

\* ------------------------------------------------------ source snippets
\* The literal 500 of query_with_sources / aquery_with_sources.
SnippetLimit == 500

\* Page contents are sequences of characters; the one of length n.
Chars == <<"a", "b", "c">>
Content(n) == [i \in 1..n |-> Chars[(i % 3) + 1]]
Contents == { Content(n) : n \in {0, 1} \cup ((SnippetLimit - 1)..(SnippetLimit + MaxOver)) }
Metas == {"a.txt", "b.pdf"}
Docs == [page_content : Contents, metadata : Metas]
DocLists == UNION { [1..n -> Docs] : n \in 0..MaxDocs }

\* text[:n]
Slice(text, n) == SubSeq(text, 1, IF Len(text) < n THEN Len(text) ELSE n)

\* the snippet with the ellipsis put on a content of exactly the limit too
snippet_from_limit(content) ==
    IF Len(content) >= SnippetLimit
    THEN Slice(content, SnippetLimit) \o <<".", ".", ".">>
    ELSE content

\* doc.page_content[:500] + "..." if len(doc.page_content) > 500
\* else doc.page_content
snippet(content) ==
    IF Len(content) > SnippetLimit
    THEN Slice(content, SnippetLimit) \o <<".", ".", ".">>
    ELSE content

\* sources = [{"content": ..., "metadata": doc.metadata} for doc in source_docs]
format_sources(docs) ==
    [i \in 1..Len(docs) |->
        [content |-> snippet(docs[i].page_content), metadata |-> docs[i].metadata]]

NoSources == [set |-> FALSE, docs |-> <<>>, sources |-> <<>>]

\* A call that returns, or raises an exception with some text.
Returns == [k |-> "ok", text |-> ""]
CallOutcomes == {Returns} \cup { [k |-> "raise", text |-> t] : t \in ExcTexts }

\* load_from_upload with the stream copied first and the extension left to
\* load_file, which checks it again
load_from_upload_open_late(name, ro) ==
    IF ro.k # "ok"
    THEN [exc |-> Exc("OSError", ro.text), read |-> TRUE, temp |-> "exists"]
    ELSE IF Lower(Suffix(name)) \notin SUPPORTED_EXTENSIONS
    THEN [exc |-> Exc("ValueError", "Unsupported file extension"),
          read |-> TRUE, temp |-> "deleted"]
    ELSE [exc |-> NoExc, read |-> TRUE, temp |-> "exists"]

\* DocumentProcessor.load_from_upload up to the loader call: the extension
\* check, then `with NamedTemporaryFile(delete=False, suffix=extension)`
\* around temp_file.write(file.read()).  ro: what file.read() and the write
\* do.  When they raise, the with statement closes the file (delete=False
\* keeps it on disk) and the exception leaves load_from_upload before the
\* try / finally that unlinks the file is entered.
\* read: the upload stream was read; temp: "none" or "exists".
load_from_upload_open(name, ro) ==
    IF Lower(Suffix(name)) \notin SUPPORTED_EXTENSIONS
    THEN [exc |-> Exc("ValueError", "Unsupported file extension"),
          read |-> FALSE, temp |-> "none"]
    ELSE IF ro.k # "ok"
    THEN [exc |-> Exc("OSError", ro.text), read |-> TRUE, temp |-> "exists"]
    ELSE [exc |-> NoExc, read |-> TRUE, temp |-> "exists"]

\* The stream is read only for a name whose extension passed the check.
ReadOutcomes(name) ==
    IF Lower(Suffix(name)) \in SUPPORTED_EXTENSIONS THEN CallOutcomes ELSE {Returns}

\* DocumentProcessor.load_file on the temporary file, whose suffix is the
\* lower-cased extension, then the loop that sets metadata["source"], then
\* split_documents: the chunks, or the loader's exception
load_and_split(load) ==
    IF load.k = "raise" THEN [exc |-> load.exc, chunks |-> 0]
    ELSE [exc |-> NoExc, chunks |-> load.n]

\* ------------------------------------------------------ HTTP responses
\* A response: the status, the text of its detail / message (the pieces an
\* f-string joins), and for the success bodies the count, the collection
\* status and the identifiers.
Resp(status, detail) ==
    [status |-> status, detail |-> detail, count |-> 0, cstatus |-> "", ids |-> {}]
NoResp == Resp(0, <<>>)

\* await x: a value that is no awaitable raises TypeError
TypeErrorAwait == Exc("TypeError", "object list can't be used in 'await' expression")
Await(v) == IF v.awaitable THEN NoExc ELSE TypeErrorAwait

\* process_upload as a coroutine function: what it returns can be awaited
process_upload_value_async(n) == [awaitable |-> TRUE, chunks |-> n]

\* DocumentProcessor.process_upload is a plain function: what it returns is
\* the list of chunks itself.
process_upload_value(n) == [awaitable |-> FALSE, chunks |-> n]

\* str(uuid4()): the i-th identifier generated (uuid4 does not repeat)
Uuid(i) == "u" \o ToString(i)

\* VectorStoreService.add_documents, the body: nothing for an empty list,
\* otherwise one uuid4 per document, in a list handed to the store next to
\* the documents and returned; a plain function as well.  n: the number of
\* documents; idList: the list `ids`; storeCalled: vector_store.add_documents
\* was called (with the documents and idList).
add_documents(d, n, nid, aa) ==
    IF n = 0
    THEN [exc |-> NoExc, db |-> d, ids |-> {}, idList |-> <<>>, storeCalled |-> FALSE,
          nextId |-> nid, awaitable |-> FALSE]
    ELSE LET idList == [i \in 1..n |-> Uuid(nid + i)]
             ids == { idList[i] : i \in 1..n }
         IN  IF aa.k # "ok"
             THEN [exc |-> AnswerExc(aa), db |-> d, ids |-> {}, idList |-> idList,
                   storeCalled |-> TRUE, nextId |-> nid + n, awaitable |-> FALSE]
             ELSE [exc |-> NoExc, db |-> [d EXCEPT !.points = @ \cup ids], ids |-> ids,
                   idList |-> idList, storeCalled |-> TRUE,
                   nextId |-> nid + n, awaitable |-> FALSE]

\* The names bound when line 79 of vector_store.py is evaluated: those of
\* the class body so far, those of the module so far, and the builtins
\* (of which the ones spelled like `ids` are listed).
ClassNames == {"__module__", "__qualname__", "__doc__", "__init__", "_ensure_collection"}
ModuleNames ==
    {"lru_cache", "Any", "uuid4", "Document", "QdrantVectorStore", "QdrantClient",
     "UnexpectedResponse", "Distance", "VectorParams", "get_settings", "get_logger",
     "get_embeddings", "logger", "settings", "EMBEDDING_DIMENSION", "get_qdrant_client"}
Builtins == {"id", "iter", "int", "isinstance"}

\* Evaluating a name in a class body
LoadName(name) ==
    IF name \in ClassNames \cup ModuleNames \cup Builtins THEN NoExc
    ELSE Exc("NameError", "name '" \o name \o "' is not defined")

\* Executing `class VectorStoreService:` when app.core.vector_store is
\* imported: `def add_documents(self, documents, ids=ids)` evaluates the
\* default value, the name ids, when the def statement is executed.  An
\* exception here ends the import; a module whose import failed is not
\* kept, so every later import executes it again.
import_vector_store == LoadName("ids")

\* A script that imports the module, takes a service and calls
\* add_documents(docs).
NoCall ==
    [exc |-> NoExc, returned |-> <<>>, passedDocs |-> <<>>, passedIds |-> <<>>,
     storeCalled |-> FALSE]
call_add_documents(d, docs, nid, aa) ==
    IF import_vector_store # NoExc
    THEN [db |-> d, nextId |-> nid,
          call |-> [NoCall EXCEPT !.exc = import_vector_store] @@ [docs |-> docs]]
    ELSE LET ad == add_documents(d, Len(docs), nid, aa)
         IN  [db |-> ad.db, nextId |-> ad.nextId,
              call |-> [docs |-> docs, exc |-> ad.exc,
                        returned |-> IF ad.exc = NoExc THEN ad.idList ELSE <<>>,
                        passedDocs |-> IF ad.storeCalled THEN docs ELSE <<>>,
                        passedIds |-> IF ad.storeCalled THEN ad.idList ELSE <<>>,
                        storeCalled |-> ad.storeCalled]]

\* The document lists a caller passes.
DocNames == {"d1", "d2"}
DocNameLists == UNION { [1..n -> DocNames] : n \in 0..MaxChunks }

\* upload_document, the two except clauses: a ValueError answers 400 with its
\* text, every other Exception (an HTTPException raised inside the try block
\* is one) answers 500 with a fixed text.  Variant that puts the text in.
upload_except_with_text(e) ==
    IF IsValueError(e) THEN Resp(400, <<e.text>>)
    ELSE Resp(500, <<"Internal server error during document upload.", e.text>>)

upload_except(e) ==
    IF IsValueError(e) THEN Resp(400, <<e.text>>)
    ELSE Resp(500, <<"Internal server error during document upload.">>)

\* The vector store is asked only by an upload that gets past the await and
\* the check for an empty list.
UploadAnswers(load) ==
    LET ls == load_and_split(load)
    IN  IF ls.exc = NoExc /\ Await(process_upload_value(ls.chunks)) = NoExc /\ ls.chunks # 0
        THEN Answers ELSE {Ok}

\* upload_document from the return of the loader to the response.
\* ls: what load_and_split gave; the answers are those of the vector store.
upload_tail(d, c, b, nid, ls, al, ac, av, aa) ==
    LET keep == [db |-> d, cache |-> c, built |-> b, nextId |-> nid, ctor |-> NoCtor]
    IN
    IF ls.exc # NoExc
    THEN keep @@ [resp |-> upload_except(ls.exc), cause |-> ls.exc]
    ELSE IF Await(process_upload_value(ls.chunks)) # NoExc
    THEN keep @@ [resp |-> upload_except(TypeErrorAwait), cause |-> TypeErrorAwait]
    ELSE IF ls.chunks = 0
    THEN LET e == Exc("HTTPException", "No content was extracted from the document.")
         IN  keep @@ [resp |-> upload_except(e), cause |-> e]
    ELSE LET vs == VectorStoreService(d, c, b, al, ac, av)
             ad == add_documents(vs.db, ls.chunks, nid, aa)
             st == [db |-> ad.db, cache |-> vs.cache, built |-> vs.built,
                    nextId |-> ad.nextId, ctor |-> CtorLog(d, vs)]
         IN  IF vs.exc # NoExc
             THEN [db |-> vs.db, cache |-> vs.cache, built |-> vs.built, nextId |-> nid,
                   ctor |-> CtorLog(d, vs), resp |-> upload_except(vs.exc), cause |-> vs.exc]
             ELSE IF ad.exc # NoExc
             THEN st @@ [resp |-> upload_except(ad.exc), cause |-> ad.exc]
             ELSE IF Await(ad) # NoExc
             THEN st @@ [resp |-> upload_except(TypeErrorAwait), cause |-> TypeErrorAwait]
             ELSE st @@ [resp |-> [Resp(200, <<"Document uploaded and processed successfully.">>)
                                     EXCEPT !.count = ls.chunks, !.ids = ad.ids],
                         cause |-> NoExc]

\* The answers a construction of the service consults: the creation is called
\* only after a lookup that raised UnexpectedResponse, the store is built
\* only after _ensure_collection returned, and the handler's own call is made
\* only with a service.  An answer that is never asked for is not drawn.
CreateAnswers(d, al) ==
    IF get_collection(d, al).exc.cls = "UnexpectedResponse" THEN Answers ELSE {Ok}
StoreAnswers(d, al, ac) ==
    IF ensure_collection(d, al, ac).exc = NoExc THEN Answers ELSE {Ok}
CallAnswers(d, c, b, al, ac, av) ==
    IF VectorStoreService(d, c, b, al, ac, av).exc = NoExc THEN Answers ELSE {Ok}

\* ------------------------------------------------------- info, delete, root
\* get_collection_info (route): the service, its info, the response; every
\* Exception answers 500 with the exception's text after a fixed prefix.
info_handler(d, c, b, al, ac, av, ag) ==
    LET vs == VectorStoreService(d, c, b, al, ac, av)
        info == vs_get_collection_info(vs.db, ag)
        exc == IF vs.exc # NoExc THEN vs.exc ELSE info.exc
    IN  [db |-> vs.db, cache |-> vs.cache, built |-> vs.built, ctor |-> CtorLog(d, vs),
         cause |-> exc,
         resp |-> IF exc # NoExc
                  THEN Resp(500, <<"Error getting collection info: ", exc.text>>)
                  ELSE [Resp(200, <<>>) EXCEPT !.count = info.points_count,
                                               !.cstatus = info.status]]

\* the route answering 200 once it has its service, whatever the deletion did
delete_handler_swallow(d, c, b, al, ac, av, ad) ==
    LET vs == VectorStoreService(d, c, b, al, ac, av)
        del == client_delete_collection(vs.db, ad)
    IN  [db |-> IF vs.exc # NoExc THEN vs.db ELSE del.db,
         cache |-> vs.cache, built |-> vs.built, ctor |-> CtorLog(d, vs),
         cause |-> vs.exc,
         resp |-> IF vs.exc # NoExc
                  THEN Resp(500, <<"Error deleting collection: ", vs.exc.text>>)
                  ELSE Resp(200, <<"Collection deleted successfully">>)]

\* delete_collection (route): the service, the deletion, the response
delete_handler(d, c, b, al, ac, av, ad) ==
    LET vs == VectorStoreService(d, c, b, al, ac, av)
        del == client_delete_collection(vs.db, ad)
        exc == IF vs.exc # NoExc THEN vs.exc ELSE del.exc
    IN  [db |-> IF vs.exc # NoExc THEN vs.db ELSE del.db,
         cache |-> vs.cache, built |-> vs.built, ctor |-> CtorLog(d, vs),
         cause |-> exc,
         resp |-> IF exc # NoExc
                  THEN Resp(500, <<"Error deleting collection: ", exc.text>>)
                  ELSE Resp(200, <<"Collection deleted successfully">>)]

\* main.global_exception_handler: 500 with a fixed detail and str(exc)
global_exception_handler(e) == Resp(500, <<"Internal Server Error", e.text>>)

\* main.root: open("static/index.html") and its text, or the exception of
\* open, which no handler of the route catches
root_handler(opened, e) ==
    IF opened THEN [resp |-> Resp(200, <<"index.html">>), cause |-> NoExc]
    ELSE [resp |-> global_exception_handler(e), cause |-> e]

\* ---------------------------------------------------- query and evaluation
\* An optional value: None, a string, or a float (its value is not modelled).
OptNone == [none |-> TRUE, s |-> ""]
Str(t) == [none |-> FALSE, s |-> t]
Float == [none |-> FALSE, s |-> "float"]

NoEval ==
    [faithfulness |-> OptNone, answer_relevancy |-> OptNone,
     evaluation_time_ms |-> OptNone, error |-> OptNone, set |-> FALSE]

\* RAGASEvaluator._handle_evaluation_error
handle_evaluation_error(e) ==
    [faithfulness |-> OptNone, answer_relevancy |-> OptNone,
     evaluation_time_ms |-> OptNone, error |-> Str(e.text), set |-> TRUE]

\* What ragas.evaluate gives on the worker thread: a record with some of the
\* two score columns, or an exception.
ScoreKeys == {"faithfulness", "answer_relevancy"}
EvalOutcomes ==
    { [k |-> "result", keys |-> K, exc |-> NoExc] : K \in SUBSET ScoreKeys }
        \cup { [k |-> "raise", keys |-> {}, exc |-> Exc("RuntimeError", t)] : t \in ExcTexts }

NoEvalOut == [k |-> "", keys |-> {}, exc |-> NoExc]

\* RAGASEvaluator.aevaluate after the worker thread has finished: the scores
\* are float(result[key] if key in result else None), and float(None) raises
\* TypeError inside the try block, as does every failure of the evaluation.
aevaluate_finish(eo) ==
    IF eo.k = "raise" THEN handle_evaluation_error(eo.exc)
    ELSE IF eo.keys # ScoreKeys
    THEN handle_evaluation_error(Exc("TypeError", "float() argument must be a string or a real number, not 'NoneType'"))
    ELSE [faithfulness |-> Float, answer_relevancy |-> Float,
          evaluation_time_ms |-> Float, error |-> OptNone, set |-> TRUE]

\* RAGChain.aquery_with_evaluation, the inner except clause: the request goes
\* on with null scores and the exception's text.  Variant that re-raises.
evaluation_except_reraise(e) == [raised |-> e, evaluation |-> NoEval]

evaluation_except(e) ==
    [raised |-> NoExc,
     evaluation |-> [faithfulness |-> OptNone, answer_relevancy |-> OptNone,
                     evaluation_time_ms |-> OptNone, error |-> Str(e.text), set |-> TRUE]]

\* A RAGChain instance as the methods see it: whether chain and retriever are
\* attributes of it, and _evaluator: no such attribute, None, or an evaluator.
\* RAGChain() runs object.__init__ (the class defines __init, not __init__)
\* and gives the first shape; the body of __init assigns retriever and
\* _evaluator before llm, prompt and chain.
\* made: the instance is what a call RAGChain(...) of this process returned;
\* ctorExc: what the last call RAGChain(...) raised.
RagShape(chain, evaluator) ==
    [chain |-> chain, evaluator |-> evaluator, made |-> FALSE, ctorExc |-> NoExc]
RagShapes ==
    { RagShape(FALSE, "unset"), RagShape(FALSE, "None"),
      RagShape(TRUE, "unset"), RagShape(TRUE, "None") }

\* RAGChain(...): the class body defines __init (stored as _RAGChain__init),
\* query, aquery, ... and no __init__, so the call runs object.__init__:
\* with an argument it raises TypeError, without one it returns an instance
\* on which no attribute has been set.
RAGChain(withArg) ==
    IF withArg
    THEN [exc |-> Exc("TypeError", "RAGChain() takes no arguments"),
          obj |-> RagShape(FALSE, "unset")]
    ELSE [exc |-> NoExc, obj |-> [RagShape(FALSE, "unset") EXCEPT !.made = TRUE]]

AnswerTexts == {"Paris", "I don't have enough information to answer that question."}
ChainOutcomes ==
    { [k |-> "answer", text |-> a, exc |-> NoExc] : a \in AnswerTexts }
        \cup { [k |-> "raise", text |-> "", exc |-> Exc("APIError", t)] : t \in ExcTexts }

\* retriever.invoke(question): the stored points nearest to the question
retriever_invoke(d, a) ==
    IF a.k # "ok" THEN [exc |-> AnswerExc(a), docs |-> {}]
    ELSE IF ~d.exists THEN [exc |-> Exc("UnexpectedResponse", "404 Not Found"), docs |-> {}]
    ELSE [exc |-> NoExc, docs |-> d.points]

\* RAGChain.evaluator (property): self._evaluator read, built when None.
\* bo: what RAGASEvaluator() does.
evaluator_property(g, bo) ==
    IF g.evaluator = "unset"
    THEN [exc |-> Exc("AttributeError", "'RAGChain' object has no attribute '_evaluator'"),
          rag |-> g]
    ELSE IF g.evaluator = "None"
    THEN IF bo.k = "ok" THEN [exc |-> NoExc, rag |-> [g EXCEPT !.evaluator = "built"]]
         ELSE [exc |-> Exc("OpenAIError", bo.text), rag |-> g]
    ELSE [exc |-> NoExc, rag |-> g]

\* ------------------------------------------------------------------ state
VARIABLES
    db,         \* the collection in the vector database
    nextId,     \* identifiers handed out so far (uuid4 never repeats)
    cache,      \* the lru_cache of get_settings, get_embeddings, get_qdrant_client
    built,      \* objects constructed so far, per class
    req,        \* the requests: input, position in the handler, response
    loop,       \* the request whose code the event-loop thread runs, 0: none
    lastCtor,   \* what the last VectorStoreService construction did
    rag,        \* the RAGChain instance the query requests use
    dp,         \* the last DocumentProcessor constructed directly
    strict,     \* the installed splitter release refuses non-positive sizes
    srcs,       \* the last list of retrieved documents formatted as sources
    calls       \* the add_documents calls made by importing scripts, in order

vars == <<db, nextId, cache, built, req, loop, lastCtor, rag, dp, strict, srcs, calls>>

\* What aquery_with_evaluation returns: answer, sources (the evaluation is
\* kept in the request's evaluation field).
NoResult == [set |-> FALSE, answer |-> "", sources |-> {}]
Result(q) == [set |-> TRUE, answer |-> q.answer, sources |-> q.sources]

IdleReq ==
    [kind |-> "", pc |-> "idle", name |-> <<>>, load |-> NoLoad,
     read |-> FALSE, temp |-> "none", resp |-> NoResp, cause |-> NoExc,
     absent |-> FALSE,
     gotAnswer |-> FALSE, answer |-> "", sources |-> {},
     evalFailed |-> FALSE, evaluation |-> NoEval, raised |-> NoExc,
     result |-> NoResult, elapsed |-> 0,
     empty |-> FALSE, onMade |-> FALSE, context |-> {}, evalOut |-> NoEvalOut]

\* After the imports: vector_store.py, rag_chain.py and main.py call
\* get_settings() at module level, so one Settings object exists and is
\* cached; no embeddings client and no database client exist yet.
InitCommon ==
    /\ nextId = 2
    /\ cache = [settings |-> 1, embeddings |-> 0, qdrant |-> 0]
    /\ built = [settings |-> 1, embeddings |-> 0, qdrant |-> 0]
    /\ req = [r \in Reqs |-> IdleReq]
    /\ loop = 0
    /\ lastCtor = NoCtor
    /\ dp = NoProcessor
    /\ srcs = NoSources
    /\ calls = <<>>

\* The documents endpoints and the cached accessors.
Init ==
    /\ InitCommon
    /\ db \in InitDbs
    /\ rag = RagShape(FALSE, "unset")
    /\ strict = FALSE

\* A request can start when the event-loop thread is idle; the slots are
\* taken in order (which slot a request takes is only its name).
Free(r) ==
    /\ req[r].pc = "idle"
    /\ loop = 0
    /\ \A q \in Reqs : q < r => req[q].pc # "idle"

Finish(r, kind, out) ==
    req' = [req EXCEPT ![r] = [@ EXCEPT !.kind = kind, !.pc = "done",
                                         !.resp = out.resp, !.cause = out.cause,
                                         !.absent = (kind \in {"info", "delete"} /\ ~db.exists)]]

\* ---------------------------------------------------------------- actions
\* GET /documents/info: the handler has no await, it runs to its response.
GetInfo(r) ==
    /\ Free(r)
    /\ \E al \in Answers : \E ac \in CreateAnswers(db, al) :
       \E av \in StoreAnswers(db, al, ac) : \E ag \in CallAnswers(db, cache, built, al, ac, av) :
         LET out == info_handler(db, cache, built, al, ac, av, ag)
         IN  /\ db' = out.db
             /\ cache' = out.cache
             /\ built' = out.built
             /\ lastCtor' = out.ctor
             /\ Finish(r, "info", out)
    /\ UNCHANGED <<nextId, loop, rag, dp, strict, srcs, calls>>

\* DELETE /documents/collection
DeleteCollection(r) ==
    /\ Free(r)
    /\ \E al \in Answers : \E ac \in CreateAnswers(db, al) :
       \E av \in StoreAnswers(db, al, ac) : \E ad \in CallAnswers(db, cache, built, al, ac, av) :
         LET out == delete_handler(db, cache, built, al, ac, av, ad)
         IN  /\ db' = out.db
             /\ cache' = out.cache
             /\ built' = out.built
             /\ lastCtor' = out.ctor
             /\ Finish(r, "delete", out)
    /\ UNCHANGED <<nextId, loop, rag, dp, strict, srcs, calls>>

\* GET /
Root(r) ==
    /\ Free(r)
    /\ \E opened \in BOOLEAN, t \in ExcTexts :
         Finish(r, "root", root_handler(opened, Exc("FileNotFoundError", t)))
    /\ UNCHANGED <<db, nextId, cache, built, loop, lastCtor, rag, dp, strict, srcs, calls>>

\* POST /documents/upload, from the request to the loader call: the file
\* name check, DocumentProcessor(), process_upload -> load_from_upload up to
\* the temporary file.  All of it runs on the event-loop thread.
UploadBegin(r) ==
    /\ Free(r)
    /\ \E name \in FileNames : \E ro \in ReadOutcomes(name) :
       \E load \in (IF load_from_upload_open(name, ro).exc = NoExc THEN Loads ELSE {NoLoad}) :
         LET proc == DocumentProcessor(None, None, strict)
             op == load_from_upload_open(name, ro)
             in_ == [req[r] EXCEPT !.kind = "upload", !.name = name, !.load = load]
         IN  IF name = <<>>
             THEN /\ req' = [req EXCEPT ![r] =
                               [in_ EXCEPT !.pc = "done",
                                           !.resp = Resp(400, <<"Filename is required.">>)]]
                  /\ loop' = 0
             ELSE IF proc.exc # NoExc
             THEN /\ req' = [req EXCEPT ![r] =
                               [in_ EXCEPT !.pc = "done", !.resp = upload_except(proc.exc),
                                           !.cause = proc.exc]]
                  /\ loop' = 0
             ELSE IF op.exc # NoExc
             THEN /\ req' = [req EXCEPT ![r] =
                               [in_ EXCEPT !.pc = "done", !.resp = upload_except(op.exc),
                                           !.cause = op.exc, !.read = op.read,
                                           !.temp = op.temp]]
                  /\ loop' = 0
             ELSE /\ req' = [req EXCEPT ![r] =
                               [in_ EXCEPT !.pc = "loading", !.read = op.read,
                                           !.temp = op.temp]]
                  /\ loop' = r
    /\ UNCHANGED <<db, nextId, cache, built, lastCtor, rag, dp, strict, srcs, calls>>

\* ... and from the loader call to the response: load_file and the finally
\* clause that unlinks the temporary file, split_documents, the await, the
\* vector store, the except clauses.  Still on the event-loop thread.
UploadFinish(r) ==
    /\ req[r].kind = "upload" /\ req[r].pc = "loading" /\ loop = r
    /\ \E al \in UploadAnswers(req[r].load) : \E ac \in CreateAnswers(db, al) :
       \E av \in StoreAnswers(db, al, ac) : \E aa \in CallAnswers(db, cache, built, al, ac, av) :
         LET ls == load_and_split(req[r].load)
             out == upload_tail(db, cache, built, nextId, ls, al, ac, av, aa)
         IN  /\ db' = out.db
             /\ cache' = out.cache
             /\ built' = out.built
             /\ nextId' = out.nextId
             /\ lastCtor' = IF out.ctor.made THEN out.ctor ELSE lastCtor
             /\ req' = [req EXCEPT ![r] = [@ EXCEPT !.pc = "done", !.temp = "deleted",
                                                    !.resp = out.resp, !.cause = out.cause]]
    /\ loop' = 0
    /\ UNCHANGED <<rag, dp, strict, srcs, calls>>

\* A query request runs RAGChain.aquery_with_evaluation(question).
\* First stretch: aquery_with_sources up to `await self.chain.ainvoke`;
\* an instance without the chain attribute raises AttributeError, which both
\* methods log and re-raise.
QueryBegin(r) ==
    /\ Free(r)
    /\ LET in_ == [req[r] EXCEPT !.kind = "query", !.onMade = rag.made,
                                  !.empty = (db.exists /\ db.points = {})]
       IN  IF rag.chain
           THEN req' = [req EXCEPT ![r] = [in_ EXCEPT !.pc = "chain"]]
           ELSE req' = [req EXCEPT ![r] =
                          [in_ EXCEPT !.pc = "done",
                                      !.raised = Exc("AttributeError",
                                                     "'RAGChain' object has no attribute 'chain'")]]
    /\ UNCHANGED <<db, nextId, cache, built, loop, lastCtor, rag, dp, strict, srcs, calls>>

\* The chain's own retrieval: the first step of chain.ainvoke runs
\* retriever | format_docs on the question; what it retrieves is the context
\* of the prompt.  A failure of the retriever fails the chain.
ChainRetrieve(r) ==
    /\ req[r].kind = "query" /\ req[r].pc = "chain" /\ loop = 0
    /\ \E ar \in Answers :
         LET rt == retriever_invoke(db, ar)
         IN  IF rt.exc # NoExc
             THEN req' = [req EXCEPT ![r] = [@ EXCEPT !.pc = "done", !.raised = rt.exc]]
             ELSE req' = [req EXCEPT ![r] = [@ EXCEPT !.pc = "llm", !.context = rt.docs]]
    /\ UNCHANGED <<db, nextId, cache, built, loop, lastCtor, rag, dp, strict, srcs, calls>>

\* The collection lives on a server (settings.QDRANT_URL) that other
\* clients use as well: another process stores a point in it.
ExternalWrite ==
    /\ db.exists /\ "x1" \notin db.points
    /\ db' = [db EXCEPT !.points = @ \cup {"x1"}]
    /\ UNCHANGED <<nextId, cache, built, req, loop, lastCtor, rag, dp, strict, srcs, calls>>

\* A call RAGChain() or RAGChain(vector_store_service).
NewRAGChain ==
    /\ loop = 0
    /\ \E withArg \in BOOLEAN :
         LET c == RAGChain(withArg)
         IN  rag' = IF c.exc = NoExc THEN c.obj ELSE [rag EXCEPT !.ctorExc = c.exc]
    /\ UNCHANGED <<db, nextId, cache, built, req, loop, lastCtor, dp, strict, srcs, calls>>

\* Second stretch, when the chain has answered: the retriever call (on the
\* event-loop thread), the sources, the evaluator property, aevaluate up to
\* asyncio.to_thread.  co: the chain's outcome; ar: the database's answer to
\* the retriever; bo: what RAGASEvaluator() does; po: what _prepare_dataset
\* does.  An outcome is drawn only for a call that is made.
ChainReturn(r) ==
    /\ req[r].kind = "query" /\ req[r].pc = "llm" /\ loop = 0
    /\ \E co \in ChainOutcomes :
       \E ar \in (IF co.k = "answer" THEN Answers ELSE {Ok}) :
       \E bo \in (IF co.k = "answer" /\ retriever_invoke(db, ar).exc = NoExc
                     /\ rag.evaluator = "None" THEN CallOutcomes ELSE {Returns}) :
       \E po \in (IF co.k = "answer" /\ retriever_invoke(db, ar).exc = NoExc
                     /\ evaluator_property(rag, bo).exc = NoExc
                  THEN CallOutcomes ELSE {Returns}) :
         LET rt == retriever_invoke(db, ar)
             got == [req[r] EXCEPT !.gotAnswer = TRUE, !.answer = co.text,
                                   !.sources = rt.docs]
             ep == evaluator_property(rag, bo)
             guard == evaluation_except(ep.exc)
         IN  IF co.k = "raise"
             THEN /\ req' = [req EXCEPT ![r] = [@ EXCEPT !.pc = "done", !.raised = co.exc]]
                  /\ rag' = rag
             ELSE IF rt.exc # NoExc
             THEN /\ req' = [req EXCEPT ![r] = [@ EXCEPT !.pc = "done", !.raised = rt.exc]]
                  /\ rag' = rag
             ELSE IF ep.exc # NoExc
             THEN /\ req' = [req EXCEPT ![r] =
                               [got EXCEPT !.pc = "done", !.evalFailed = TRUE,
                                           !.evaluation = guard.evaluation,
                                           !.raised = guard.raised,
                                           !.result = IF guard.raised = NoExc
                                                      THEN Result(got) ELSE NoResult]]
                  /\ rag' = ep.rag
             ELSE IF po.k # "ok"
             THEN /\ req' = [req EXCEPT ![r] =
                               [got EXCEPT !.pc = "done", !.evalFailed = TRUE,
                                           !.evaluation =
                                               handle_evaluation_error(
                                                   Exc("ArrowInvalid", po.text)),
                                           !.result = Result(got)]]
                  /\ rag' = ep.rag
             ELSE /\ req' = [req EXCEPT ![r] = [got EXCEPT !.pc = "evaluating"]]
                  /\ rag' = ep.rag
    /\ UNCHANGED <<db, nextId, cache, built, loop, lastCtor, dp, strict, srcs, calls>>

\* Third stretch, when the worker thread has finished _evaluate_with_timeout:
\* the scores or the fallback, and the result of the request.
EvalReturn(r) ==
    /\ req[r].kind = "query" /\ req[r].pc = "evaluating" /\ loop = 0
    /\ \E eo \in EvalOutcomes :
         req' = [req EXCEPT ![r] =
                   [@ EXCEPT !.pc = "done",
                             !.evalFailed = (eo.k = "raise" \/ eo.keys # ScoreKeys),
                             !.evaluation = aevaluate_finish(eo),
                             !.evalOut = eo,
                             !.result = Result(req[r])]]
    /\ UNCHANGED <<db, nextId, cache, built, loop, lastCtor, rag, dp, strict, srcs, calls>>

\* Time passes while ragas.evaluate runs on the worker thread.  The clock
\* is read in steps of one timeout period.  _evaluate_with_timeout calls
\* evaluate(dataset, ...) and waits for it to return: nothing in it, in
\* aevaluate or in asyncio.to_thread reads ragas_timeout_seconds, so the
\* passing of time changes the clock and nothing else.
EvalTick(r) ==
    /\ req[r].kind = "query" /\ req[r].pc = "evaluating"
    /\ req[r].elapsed < MaxTicks * ragas_timeout_seconds
    /\ req' = [req EXCEPT ![r] = [@ EXCEPT !.elapsed = @ + ragas_timeout_seconds]]
    /\ UNCHANGED <<db, nextId, cache, built, loop, lastCtor, rag, dp, strict, srcs, calls>>

\* Direct calls of the cached accessors, and EmbeddingService().
CallGetSettings ==
    /\ loop = 0
    /\ LET g == get_settings(cache, built) IN cache' = g.cache /\ built' = g.built
    /\ UNCHANGED <<db, nextId, req, loop, lastCtor, rag, dp, strict, srcs, calls>>

CallGetEmbeddings ==
    /\ loop = 0
    /\ LET g == get_embeddings(cache, built) IN cache' = g.cache /\ built' = g.built
    /\ UNCHANGED <<db, nextId, req, loop, lastCtor, rag, dp, strict, srcs, calls>>

CallGetQdrantClient ==
    /\ loop = 0
    /\ LET g == get_qdrant_client(cache, built) IN cache' = g.cache /\ built' = g.built
    /\ UNCHANGED <<db, nextId, req, loop, lastCtor, rag, dp, strict, srcs, calls>>

Next ==
    \/ \E r \in Reqs : GetInfo(r)
    \/ \E r \in Reqs : DeleteCollection(r)
    \/ \E r \in Reqs : Root(r)
    \/ \E r \in Reqs : UploadBegin(r)
    \/ \E r \in Reqs : UploadFinish(r)
    \/ CallGetSettings
    \/ CallGetEmbeddings
    \/ CallGetQdrantClient

Spec == Init /\ [][Next]_vars

\* ------------------------------------------ queries next to uploads
\* The query requests, with uploads as the other users of the event loop.
InitQuery ==
    /\ InitCommon
    /\ db \in InitDbs
    /\ rag \in RagShapes
    /\ strict = FALSE

NextQuery ==
    \/ \E r \in Reqs : QueryBegin(r)
    \/ \E r \in Reqs : ChainRetrieve(r)
    \/ \E r \in Reqs : ChainReturn(r)
    \/ \E r \in Reqs : EvalReturn(r)
    \/ \E r \in Reqs : UploadBegin(r)
    \/ \E r \in Reqs : UploadFinish(r)

SpecQuery == InitQuery /\ [][NextQuery]_vars

\* ------------------------------------- queries, the clock and the database
\* The query requests, first on an instance that has its chain and then
\* also on the instances RAGChain() returns, with the clock of the
\* evaluation and another writer of the collection.
InitChain ==
    /\ InitCommon
    /\ db \in InitDbs
    /\ rag \in { g \in RagShapes : g.chain }
    /\ strict = FALSE

NextChain ==
    \/ \E r \in Reqs : QueryBegin(r)
    \/ \E r \in Reqs : ChainRetrieve(r)
    \/ \E r \in Reqs : ChainReturn(r)
    \/ \E r \in Reqs : EvalTick(r)
    \/ \E r \in Reqs : EvalReturn(r)
    \/ ExternalWrite
    \/ NewRAGChain

SpecChain == InitChain /\ [][NextChain]_vars

\* ------------------------------------------------ the sources on their own
\* The list comprehension of query_with_sources / aquery_with_sources on
\* the list of retrieved documents.
FormatSources ==
    /\ ~srcs.set
    /\ srcs' = [srcs EXCEPT !.set = TRUE, !.sources = format_sources(srcs.docs)]
    /\ UNCHANGED <<db, nextId, cache, built, req, loop, lastCtor, rag, dp, strict, calls>>

\* Every list of retrieved documents.
InitSources ==
    /\ nextId = 2
    /\ cache = [settings |-> 1, embeddings |-> 0, qdrant |-> 0]
    /\ built = [settings |-> 1, embeddings |-> 0, qdrant |-> 0]
    /\ req = [r \in Reqs |-> IdleReq]
    /\ loop = 0
    /\ lastCtor = NoCtor
    /\ dp = NoProcessor
    /\ calls = <<>>
    /\ srcs \in { [set |-> FALSE, docs |-> d, sources |-> <<>>] : d \in DocLists }
    /\ db \in StoredDbs
    /\ rag = RagShape(TRUE, "None")
    /\ strict = FALSE

NextSources == FormatSources

SpecSources == InitSources /\ [][NextSources]_vars

\* ------------------------------------------- add_documents on its own
\* Up to MaxReq calls of add_documents, one after the other.  The store is
\* asked only by a call that reaches it.
CallAddDocuments ==
    /\ Len(calls) < MaxReq
    /\ \E docs \in DocNameLists :
       \E aa \in (IF import_vector_store = NoExc /\ Len(docs) > 0 THEN Answers ELSE {Ok}) :
         LET out == call_add_documents(db, docs, nextId, aa)
         IN  /\ calls' = Append(calls, out.call)
             /\ db' = out.db
             /\ nextId' = out.nextId
    /\ UNCHANGED <<cache, built, req, loop, lastCtor, rag, dp, strict, srcs>>

InitAdd ==
    /\ InitCommon
    /\ db \in InitDbs
    /\ rag = RagShape(FALSE, "unset")
    /\ strict = FALSE

NextAdd == CallAddDocuments

SpecAdd == InitAdd /\ [][NextAdd]_vars

\* ------------------------------------------- DocumentProcessor on its own
\* DocumentProcessor(chunk_size, chunk_overlap) for every pair of arguments.
NewDocumentProcessor ==
    /\ \E cs, co \in ArgVals : dp' = DocumentProcessor(cs, co, strict)
    /\ UNCHANGED <<db, nextId, cache, built, req, loop, lastCtor, rag, strict, srcs, calls>>

InitDP ==
    /\ InitCommon
    /\ db = AbsentDb
    /\ rag \in RagShapes
    /\ strict \in BOOLEAN

NextDP == NewDocumentProcessor

SpecDP == InitDP /\ [][NextDP]_vars

\* ============================================================ properties
Done(r, kind) == req[r].kind = kind /\ req[r].pc = "done"

\* C1: an upload with a supported extension whose content gives zero chunks
\* always ends with HTTP 400, never with 200 or 500.
C1_EmptyUploadIs400 ==
    \A r \in Reqs :
        (Done(r, "upload") /\ SupportedName(req[r].name)
            /\ req[r].load.k = "chunks" /\ req[r].load.n = 0)
        => req[r].resp.status = 400

\* C2: an upload whose extension, compared case-insensitively, is not .pdf,
\* .txt or .csv ends with HTTP 400, and at no moment has its stream been
\* read or a temporary file been created for it.
C2_UnsupportedRejectedEarly ==
    \A r \in Reqs :
        (req[r].kind = "upload" /\ ~SupportedName(req[r].name))
        => /\ req[r].pc = "done"
           /\ req[r].resp.status = 400
           /\ ~req[r].read
           /\ req[r].temp = "none"

C2_Witness ==
    \E r \in Reqs :
        /\ Done(r, "upload")
        /\ req[r].name = <<"a", ".", "e", "x", "e">>
        /\ req[r].resp.status = 400
        /\ req[r].cause.cls = "ValueError"

\* C3: an upload of a supported type that splits into n >= 1 chunks, with no
\* external call failing, ends with HTTP 200, chunks_created = n, and n
\* identifiers that are all stored in the collection.
C3_ValidUploadIs200 ==
    \A r \in Reqs :
        (Done(r, "upload") /\ SupportedName(req[r].name)
            /\ req[r].load.k = "chunks" /\ req[r].load.n >= 1
            /\ req[r].cause.cls \notin {"UnexpectedResponse", "ResponseHandlingException"})
        => /\ req[r].resp.status = 200
           /\ req[r].resp.count = req[r].load.n
           /\ Cardinality(req[r].resp.ids) = req[r].load.n

\* C4: GET /documents/info on a collection that does not exist answers, when
\* it answers, with status "not_found" and total_documents 0.
C4_InfoNotFound ==
    \A r \in Reqs :
        (Done(r, "info") /\ req[r].absent /\ req[r].resp.status = 200)
        => /\ req[r].resp.cstatus = "not_found"
           /\ req[r].resp.count = 0

\* C5: once answer and sources are obtained, the request ends successfully
\* whatever the evaluation step does, returning that answer and those
\* sources; when the evaluation step failed (the evaluator could not be
\* obtained, or the evaluation failed inside aevaluate), the evaluation has
\* null faithfulness and answer_relevancy and a string as error.
C5_EvaluationDegrades ==
    \A r \in Reqs :
        (Done(r, "query") /\ req[r].gotAnswer)
        => /\ req[r].raised = NoExc
           /\ req[r].result = [set |-> TRUE, answer |-> req[r].answer,
                               sources |-> req[r].sources]
           /\ req[r].evaluation.set
           /\ (req[r].evalFailed
                => /\ req[r].evaluation.faithfulness = OptNone
                   /\ req[r].evaluation.answer_relevancy = OptNone
                   /\ ~req[r].evaluation.error.none)

C5_Witness ==
    \E r, q \in Reqs :
        /\ Done(r, "query") /\ req[r].gotAnswer /\ req[r].evalFailed
        /\ req[r].evaluation.error.s \in ExcTexts
        /\ Done(q, "query") /\ req[q].gotAnswer /\ req[q].evalFailed
        /\ req[q].evaluation.error.s \notin ExcTexts

\* C6 as stated: two 500 responses of the same endpoint (upload, info,
\* delete, the global handler) have the same content.
Failing == {"upload", "info", "delete", "root"}
C6_Generic500 ==
    \A r, q \in Reqs :
        (req[r].pc = "done" /\ req[q].pc = "done"
            /\ req[r].kind \in Failing /\ req[r].kind = req[q].kind
            /\ req[r].resp.status = 500 /\ req[q].resp.status = 500)
        => req[r].resp.detail = req[q].resp.detail

\* C6 amended: every exception that is no ValueError of the upload is
\* answered 500; the upload's 500 has one fixed content; the 500 of info,
\* delete and the global handler carries the text of the exception after a
\* fixed text.
C6_Amended ==
    \A r \in Reqs :
        req[r].pc = "done" /\ req[r].kind \in Failing
        => /\ (req[r].cause # NoExc /\ ~(req[r].kind = "upload" /\ IsValueError(req[r].cause)))
                => req[r].resp.status = 500
           /\ (req[r].resp.status = 500 /\ req[r].kind = "upload")
                => req[r].resp.detail = <<"Internal server error during document upload.">>
           /\ (req[r].resp.status = 500 /\ req[r].kind # "upload")
                => /\ Len(req[r].resp.detail) = 2
                   /\ req[r].resp.detail[2] = req[r].cause.text
                   /\ req[r].resp.detail[1] =
                          CASE req[r].kind = "info" -> "Error getting collection info: "
                            [] req[r].kind = "delete" -> "Error deleting collection: "
                            [] OTHER -> "Internal Server Error"

C6_Witness ==
    \E r, q \in Reqs :
        /\ Done(r, "upload") /\ Done(q, "upload")
        /\ req[r].resp.status = 500 /\ req[q].resp.status = 500
        /\ req[r].cause.text # req[q].cause.text

\* C7: while a request is loading and chunking an upload, or in the RAGAS
\* evaluation, the event-loop thread is not the one doing that work.
C7_BlockingOffLoop ==
    \A r \in Reqs :
        ((req[r].kind = "upload" /\ req[r].pc = "loading")
            \/ (req[r].kind = "query" /\ req[r].pc = "evaluating"))
        => loop # r

\* C8: a Settings object, an embeddings client and a database client are
\* each constructed at most once, and the cache holds that instance.
C8_BuiltOnce ==
    \A h \in Handles : built[h] <= 1 /\ cache[h] \in {0, 1}

\* C9: a construction of the service that finds the collection existing
\* does not call create_collection and leaves its points alone; one that
\* returns normally after a lookup that raised UnexpectedResponse has created
\* it with size 1536 and cosine distance; one that returns normally leaves
\* the collection existing, created by it when it was absent.
C9_CreateIffAbsent ==
    lastCtor.made
    => /\ (lastCtor.before.exists
            => /\ ~lastCtor.createCalled
               /\ lastCtor.after.points = lastCtor.before.points)
       /\ ((lastCtor.lookup = "UnexpectedResponse" /\ lastCtor.returned)
            => /\ lastCtor.after.size = EMBEDDING_DIMENSION
               /\ lastCtor.after.distance = "Cosine")
       /\ (lastCtor.returned
            => /\ lastCtor.after.exists
               /\ (~lastCtor.before.exists => lastCtor.createCalled))

\* C10: every DocumentProcessor that is constructed has a positive
\* chunk_size and a positive chunk_overlap, and the splitter got these.
C10_PositiveChunking ==
    (dp # NoProcessor /\ dp.exc = NoExc)
    => /\ dp.chunk_size > 0
       /\ dp.chunk_overlap > 0
       /\ dp.splitter.chunk_size = dp.chunk_size
       /\ dp.splitter.chunk_overlap = dp.chunk_overlap

\* C11: an evaluation is not waited for beyond ragas_timeout_seconds: no
\* request is still in the evaluation after more than that time, and one
\* whose evaluation took longer ends with the null-score fallback and an
\* error.
C11_EvaluationBounded ==
    \A r \in Reqs :
        /\ (req[r].kind = "query" /\ req[r].pc = "evaluating")
             => req[r].elapsed <= ragas_timeout_seconds
        /\ (Done(r, "query") /\ req[r].elapsed > ragas_timeout_seconds)
             => /\ req[r].evaluation.faithfulness = OptNone
                /\ req[r].evaluation.answer_relevancy = OptNone
                /\ ~req[r].evaluation.error.none

\* C12: a question asked through a RAGChain that the program constructed,
\* while the collection exists and holds no documents, is answered, and the
\* answer is the fallback phrase of the prompt template.
C12_EmptyCollectionFallback ==
    \A r \in Reqs :
        (Done(r, "query") /\ req[r].onMade /\ req[r].empty)
        => /\ req[r].raised = NoExc
           /\ req[r].answer = "I don't have enough information to answer that question."

\* C13: a step of an upload request that does not end it with 200 (the
\* request is still going on, or ends with 400 or 500) adds no point to the
\* collection: the points are those of before the step, and so those of
\* before the request.
C13_ErrorAddsNothing ==
    [][\A r \in Reqs :
          (req'[r] # req[r] /\ req'[r].kind = "upload"
              /\ (req'[r].pc = "done" => req'[r].resp.status # 200))
          => db'.points = db.points]_vars

C13_Witness ==
    \E r, q \in Reqs :
        /\ Done(r, "upload") /\ req[r].resp.status = 500
        /\ req[r].load.k = "chunks" /\ req[r].load.n >= 1
        /\ Done(q, "upload") /\ req[q].resp.status = 400
        /\ db.points = {"p1", "p2"}

\* C14: a DocumentProcessor that is constructed uses the chunk_size and the
\* chunk_overlap it was given, whatever integer that is (0 included), and
\* the settings' CHUNK_SIZE / CHUNK_OVERLAP exactly for an argument None.
C14_ArgumentsUsed ==
    (dp # NoProcessor /\ dp.exc = NoExc)
    => /\ dp.chunk_size = (IF dp.args[1].some THEN dp.args[1].v ELSE CHUNK_SIZE)
       /\ dp.chunk_overlap = (IF dp.args[2].some THEN dp.args[2].v ELSE CHUNK_OVERLAP)

\* C15: when the evaluation returned a result, a score whose entry is missing
\* is reported as None and a score whose entry is present as a float, with
\* evaluation_time_ms set and error None; aevaluate raises in no case.
C15_MissingScoreIsNone ==
    \A r \in Reqs :
        (Done(r, "query") /\ req[r].evalOut.k = "result")
        => /\ req[r].raised = NoExc
           /\ req[r].evaluation.set
           /\ req[r].evaluation.faithfulness =
                  (IF "faithfulness" \in req[r].evalOut.keys THEN Float ELSE OptNone)
           /\ req[r].evaluation.answer_relevancy =
                  (IF "answer_relevancy" \in req[r].evalOut.keys THEN Float ELSE OptNone)
           /\ req[r].evaluation.evaluation_time_ms = Float
           /\ req[r].evaluation.error = OptNone

\* C16: when load_from_upload has returned or raised, the temporary file it
\* created is gone: no finished upload has left its temporary file behind.
C16_NoTempFileLeft ==
    \A r \in Reqs : Done(r, "upload") => req[r].temp # "exists"

\* C17: the sources have one entry for each retrieved document, in the order
\* of retrieval, with that document's metadata; the content is the page
\* content when that has at most 500 characters, and otherwise its first
\* 500 characters followed by three dots, 503 characters in all.
C17_SnippetTruncation ==
    srcs.set
    => /\ Len(srcs.sources) = Len(srcs.docs)
       /\ \A i \in 1..Len(srcs.docs) :
            LET c == srcs.docs[i].page_content
                t == srcs.sources[i].content
            IN  /\ srcs.sources[i].metadata = srcs.docs[i].metadata
                /\ Len(t) <= 503
                /\ (Len(c) <= 500 => t = c)
                /\ (Len(c) > 500
                     => /\ Len(t) = 503
                        /\ \A j \in 1..500 : t[j] = c[j]
                        /\ \A j \in 501..503 : t[j] = ".")

C17_Witness ==
    /\ srcs.set
    /\ Len(srcs.docs) = 2
    /\ Len(srcs.docs[1].page_content) = 501
    /\ Len(srcs.docs[2].page_content) = 500
    /\ srcs.docs[1].metadata # srcs.docs[2].metadata
    /\ Len(srcs.sources[1].content) = 503
    /\ Len(srcs.sources[2].content) = 500

\* C18: a call RAGChain() or RAGChain(vector_store_service) returns an
\* instance, and every instance so constructed has its chain and its
\* _evaluator attribute (None, or the evaluator once built), so that a query
\* on it gets to the chain invocation.
C18_ConstructedIsUsable ==
    /\ rag.ctorExc = NoExc
    /\ rag.made => (rag.chain /\ rag.evaluator # "unset")
    /\ \A r \in Reqs :
         (req[r].kind = "query" /\ req[r].onMade) => req[r].raised.cls # "AttributeError"

\* C19: the sources a query returns are the documents its chain retrieved as
\* the context of the answer, whatever other writers of the collection do
\* in between.
C19_SourcesAreContext ==
    \A r \in Reqs :
        (Done(r, "query") /\ req[r].result.set)
        => req[r].result.sources = req[r].context

\* C20: a call of add_documents with n >= 1 documents that the store accepts
\* returns n pairwise distinct identifiers, which it passed to the store, in
\* this order, next to the documents in their order; a call with no document
\* returns the empty list without calling the store.
C20_IdsGenerated ==
    \A i \in 1..Len(calls) :
        LET c == calls[i]
            n == Len(c.docs)
        IN  /\ (n >= 1 /\ c.exc.cls \notin {"UnexpectedResponse", "ResponseHandlingException"})
                 => /\ c.exc = NoExc
                    /\ Len(c.returned) = n
                    /\ \A j, k \in 1..n : j # k => c.returned[j] # c.returned[k]
                    /\ c.storeCalled
                    /\ c.passedIds = c.returned
                    /\ c.passedDocs = c.docs
            /\ (n = 0 => (c.exc = NoExc /\ c.returned = <<>> /\ ~c.storeCalled))

\* C21: a deletion request fails only when a call to the database fails,
\* never because the collection is missing; when it answers 200 the
\* collection does not exist; and a collection that does not exist comes
\* into existence only by the construction of a service in a later request,
\* which creates it with zero points.
C21_DeleteThenRecreate ==
    [][/\ \A r \in Reqs :
            (req[r].pc # "done" /\ req'[r].pc = "done" /\ req'[r].kind = "delete")
            => /\ (req'[r].resp.status # 200
                    => /\ req'[r].cause.cls \in {"UnexpectedResponse",
                                                 "ResponseHandlingException"}
                       /\ req'[r].cause.text # "404 Not Found")
               /\ (req'[r].resp.status = 200 => ~db'.exists)
       /\ (~db.exists /\ db'.exists)
            => /\ lastCtor'.made /\ lastCtor'.createCalled
               /\ ~lastCtor'.before.exists
               /\ db'.points = {}]_vars

C21_Witness ==
    \E r, q \in Reqs :
        /\ Done(r, "delete") /\ req[r].absent /\ req[r].resp.status = 200
        /\ Done(q, "info") /\ req[q].absent /\ req[q].resp.status = 200
        /\ req[q].resp.count = 0
        /\ db.exists /\ db.points = {}

====
